---- MODULE Spec2Model ----
(***************************************************************************)
(* Personal finance tracker (src/main.py): the CSV store finance_data.csv, *)
(* class CSV (initialize_csv, add_entry, add_sample_data,                  *)
(* get_transactions), plot_transactions, add and the menu loop main.       *)
(*                                                                         *)
(* Representation.  A text that the code parses (a date) is a sequence of  *)
(* one-character strings, so that parsing is computed.  The store is the   *)
(* file: whether it exists, whether its first line is the column-name line *)
(* written by DataFrame.to_csv, and the data lines after it in file order. *)
(* A character outside ASCII is written by its code point, "U+0665".       *)
(* A data line is the record of its four cells.  csv.writer's quoting and  *)
(* the pandas tokenizer are inverse to each other on single-line fields,   *)
(* so a line is kept as cells; what pandas does to a cell afterwards (NA   *)
(* detection, date parsing) is modelled.  Amounts are integers: a number   *)
(* cell is written with repr and read back to the same number.             *)
(***************************************************************************)
EXTENDS Integers, Sequences, FiniteSets, TLC

\* file: finance_data.csv.  last: the last call, see Call.  pc: where the
\* program waits or has ended: "menu" (line 153), "prompts" inside add(),
\* "start_date" (157), "end_date" (158), "plot_prompt" (160), "crashed" by
\* an exception nothing catches, "exited".
\* nWrites: the add_entry calls and the direct add_sample_data calls that
\* have written so far.  seedWrites: how often initialize_csv has written
\* the seed records.
VARIABLES file, last, pc, nWrites, seedWrites

vars == <<file, last, pc, nWrites, seedWrites>>

\* Number of writing calls (add_entry, add_sample_data called directly)
\* explored in one behaviour.
MaxWrites == 2

(***************************************************************************)
(* Texts                                                                   *)
(***************************************************************************)
DigitChar == <<"0", "1", "2", "3", "4", "5", "6", "7", "8", "9">>

\* The decimal digits outside ASCII (Unicode category Nd): the set at
\* place v + 1 holds the digits of value v.
UnicodeDigits == <<
    {
      "U+0660", "U+06F0", "U+07C0", "U+0966", "U+09E6", "U+0A66", "U+0AE6",
      "U+0B66", "U+0BE6", "U+0C66", "U+0CE6", "U+0D66", "U+0DE6", "U+0E50",
      "U+0ED0", "U+0F20", "U+1040", "U+1090", "U+17E0", "U+1810", "U+1946",
      "U+19D0", "U+1A80", "U+1A90", "U+1B50", "U+1BB0", "U+1C40", "U+1C50",
      "U+A620", "U+A8D0", "U+A900", "U+A9D0", "U+A9F0", "U+AA50", "U+ABF0",
      "U+FF10", "U+104A0", "U+10D30", "U+11066", "U+110F0", "U+11136",
      "U+111D0", "U+112F0", "U+11450", "U+114D0", "U+11650", "U+116C0",
      "U+11730", "U+118E0", "U+11950", "U+11C50", "U+11D50", "U+11DA0",
      "U+16A60", "U+16AC0", "U+16B50", "U+1D7CE", "U+1D7D8", "U+1D7E2",
      "U+1D7EC", "U+1D7F6", "U+1E140", "U+1E2F0", "U+1E950", "U+1FBF0" },
    {
      "U+0661", "U+06F1", "U+07C1", "U+0967", "U+09E7", "U+0A67", "U+0AE7",
      "U+0B67", "U+0BE7", "U+0C67", "U+0CE7", "U+0D67", "U+0DE7", "U+0E51",
      "U+0ED1", "U+0F21", "U+1041", "U+1091", "U+17E1", "U+1811", "U+1947",
      "U+19D1", "U+1A81", "U+1A91", "U+1B51", "U+1BB1", "U+1C41", "U+1C51",
      "U+A621", "U+A8D1", "U+A901", "U+A9D1", "U+A9F1", "U+AA51", "U+ABF1",
      "U+FF11", "U+104A1", "U+10D31", "U+11067", "U+110F1", "U+11137",
      "U+111D1", "U+112F1", "U+11451", "U+114D1", "U+11651", "U+116C1",
      "U+11731", "U+118E1", "U+11951", "U+11C51", "U+11D51", "U+11DA1",
      "U+16A61", "U+16AC1", "U+16B51", "U+1D7CF", "U+1D7D9", "U+1D7E3",
      "U+1D7ED", "U+1D7F7", "U+1E141", "U+1E2F1", "U+1E951", "U+1FBF1" },
    {
      "U+0662", "U+06F2", "U+07C2", "U+0968", "U+09E8", "U+0A68", "U+0AE8",
      "U+0B68", "U+0BE8", "U+0C68", "U+0CE8", "U+0D68", "U+0DE8", "U+0E52",
      "U+0ED2", "U+0F22", "U+1042", "U+1092", "U+17E2", "U+1812", "U+1948",
      "U+19D2", "U+1A82", "U+1A92", "U+1B52", "U+1BB2", "U+1C42", "U+1C52",
      "U+A622", "U+A8D2", "U+A902", "U+A9D2", "U+A9F2", "U+AA52", "U+ABF2",
      "U+FF12", "U+104A2", "U+10D32", "U+11068", "U+110F2", "U+11138",
      "U+111D2", "U+112F2", "U+11452", "U+114D2", "U+11652", "U+116C2",
      "U+11732", "U+118E2", "U+11952", "U+11C52", "U+11D52", "U+11DA2",
      "U+16A62", "U+16AC2", "U+16B52", "U+1D7D0", "U+1D7DA", "U+1D7E4",
      "U+1D7EE", "U+1D7F8", "U+1E142", "U+1E2F2", "U+1E952", "U+1FBF2" },
    {
      "U+0663", "U+06F3", "U+07C3", "U+0969", "U+09E9", "U+0A69", "U+0AE9",
      "U+0B69", "U+0BE9", "U+0C69", "U+0CE9", "U+0D69", "U+0DE9", "U+0E53",
      "U+0ED3", "U+0F23", "U+1043", "U+1093", "U+17E3", "U+1813", "U+1949",
      "U+19D3", "U+1A83", "U+1A93", "U+1B53", "U+1BB3", "U+1C43", "U+1C53",
      "U+A623", "U+A8D3", "U+A903", "U+A9D3", "U+A9F3", "U+AA53", "U+ABF3",
      "U+FF13", "U+104A3", "U+10D33", "U+11069", "U+110F3", "U+11139",
      "U+111D3", "U+112F3", "U+11453", "U+114D3", "U+11653", "U+116C3",
      "U+11733", "U+118E3", "U+11953", "U+11C53", "U+11D53", "U+11DA3",
      "U+16A63", "U+16AC3", "U+16B53", "U+1D7D1", "U+1D7DB", "U+1D7E5",
      "U+1D7EF", "U+1D7F9", "U+1E143", "U+1E2F3", "U+1E953", "U+1FBF3" },
    {
      "U+0664", "U+06F4", "U+07C4", "U+096A", "U+09EA", "U+0A6A", "U+0AEA",
      "U+0B6A", "U+0BEA", "U+0C6A", "U+0CEA", "U+0D6A", "U+0DEA", "U+0E54",
      "U+0ED4", "U+0F24", "U+1044", "U+1094", "U+17E4", "U+1814", "U+194A",
      "U+19D4", "U+1A84", "U+1A94", "U+1B54", "U+1BB4", "U+1C44", "U+1C54",
      "U+A624", "U+A8D4", "U+A904", "U+A9D4", "U+A9F4", "U+AA54", "U+ABF4",
      "U+FF14", "U+104A4", "U+10D34", "U+1106A", "U+110F4", "U+1113A",
      "U+111D4", "U+112F4", "U+11454", "U+114D4", "U+11654", "U+116C4",
      "U+11734", "U+118E4", "U+11954", "U+11C54", "U+11D54", "U+11DA4",
      "U+16A64", "U+16AC4", "U+16B54", "U+1D7D2", "U+1D7DC", "U+1D7E6",
      "U+1D7F0", "U+1D7FA", "U+1E144", "U+1E2F4", "U+1E954", "U+1FBF4" },
    {
      "U+0665", "U+06F5", "U+07C5", "U+096B", "U+09EB", "U+0A6B", "U+0AEB",
      "U+0B6B", "U+0BEB", "U+0C6B", "U+0CEB", "U+0D6B", "U+0DEB", "U+0E55",
      "U+0ED5", "U+0F25", "U+1045", "U+1095", "U+17E5", "U+1815", "U+194B",
      "U+19D5", "U+1A85", "U+1A95", "U+1B55", "U+1BB5", "U+1C45", "U+1C55",
      "U+A625", "U+A8D5", "U+A905", "U+A9D5", "U+A9F5", "U+AA55", "U+ABF5",
      "U+FF15", "U+104A5", "U+10D35", "U+1106B", "U+110F5", "U+1113B",
      "U+111D5", "U+112F5", "U+11455", "U+114D5", "U+11655", "U+116C5",
      "U+11735", "U+118E5", "U+11955", "U+11C55", "U+11D55", "U+11DA5",
      "U+16A65", "U+16AC5", "U+16B55", "U+1D7D3", "U+1D7DD", "U+1D7E7",
      "U+1D7F1", "U+1D7FB", "U+1E145", "U+1E2F5", "U+1E955", "U+1FBF5" },
    {
      "U+0666", "U+06F6", "U+07C6", "U+096C", "U+09EC", "U+0A6C", "U+0AEC",
      "U+0B6C", "U+0BEC", "U+0C6C", "U+0CEC", "U+0D6C", "U+0DEC", "U+0E56",
      "U+0ED6", "U+0F26", "U+1046", "U+1096", "U+17E6", "U+1816", "U+194C",
      "U+19D6", "U+1A86", "U+1A96", "U+1B56", "U+1BB6", "U+1C46", "U+1C56",
      "U+A626", "U+A8D6", "U+A906", "U+A9D6", "U+A9F6", "U+AA56", "U+ABF6",
      "U+FF16", "U+104A6", "U+10D36", "U+1106C", "U+110F6", "U+1113C",
      "U+111D6", "U+112F6", "U+11456", "U+114D6", "U+11656", "U+116C6",
      "U+11736", "U+118E6", "U+11956", "U+11C56", "U+11D56", "U+11DA6",
      "U+16A66", "U+16AC6", "U+16B56", "U+1D7D4", "U+1D7DE", "U+1D7E8",
      "U+1D7F2", "U+1D7FC", "U+1E146", "U+1E2F6", "U+1E956", "U+1FBF6" },
    {
      "U+0667", "U+06F7", "U+07C7", "U+096D", "U+09ED", "U+0A6D", "U+0AED",
      "U+0B6D", "U+0BED", "U+0C6D", "U+0CED", "U+0D6D", "U+0DED", "U+0E57",
      "U+0ED7", "U+0F27", "U+1047", "U+1097", "U+17E7", "U+1817", "U+194D",
      "U+19D7", "U+1A87", "U+1A97", "U+1B57", "U+1BB7", "U+1C47", "U+1C57",
      "U+A627", "U+A8D7", "U+A907", "U+A9D7", "U+A9F7", "U+AA57", "U+ABF7",
      "U+FF17", "U+104A7", "U+10D37", "U+1106D", "U+110F7", "U+1113D",
      "U+111D7", "U+112F7", "U+11457", "U+114D7", "U+11657", "U+116C7",
      "U+11737", "U+118E7", "U+11957", "U+11C57", "U+11D57", "U+11DA7",
      "U+16A67", "U+16AC7", "U+16B57", "U+1D7D5", "U+1D7DF", "U+1D7E9",
      "U+1D7F3", "U+1D7FD", "U+1E147", "U+1E2F7", "U+1E957", "U+1FBF7" },
    {
      "U+0668", "U+06F8", "U+07C8", "U+096E", "U+09EE", "U+0A6E", "U+0AEE",
      "U+0B6E", "U+0BEE", "U+0C6E", "U+0CEE", "U+0D6E", "U+0DEE", "U+0E58",
      "U+0ED8", "U+0F28", "U+1048", "U+1098", "U+17E8", "U+1818", "U+194E",
      "U+19D8", "U+1A88", "U+1A98", "U+1B58", "U+1BB8", "U+1C48", "U+1C58",
      "U+A628", "U+A8D8", "U+A908", "U+A9D8", "U+A9F8", "U+AA58", "U+ABF8",
      "U+FF18", "U+104A8", "U+10D38", "U+1106E", "U+110F8", "U+1113E",
      "U+111D8", "U+112F8", "U+11458", "U+114D8", "U+11658", "U+116C8",
      "U+11738", "U+118E8", "U+11958", "U+11C58", "U+11D58", "U+11DA8",
      "U+16A68", "U+16AC8", "U+16B58", "U+1D7D6", "U+1D7E0", "U+1D7EA",
      "U+1D7F4", "U+1D7FE", "U+1E148", "U+1E2F8", "U+1E958", "U+1FBF8" },
    {
      "U+0669", "U+06F9", "U+07C9", "U+096F", "U+09EF", "U+0A6F", "U+0AEF",
      "U+0B6F", "U+0BEF", "U+0C6F", "U+0CEF", "U+0D6F", "U+0DEF", "U+0E59",
      "U+0ED9", "U+0F29", "U+1049", "U+1099", "U+17E9", "U+1819", "U+194F",
      "U+19D9", "U+1A89", "U+1A99", "U+1B59", "U+1BB9", "U+1C49", "U+1C59",
      "U+A629", "U+A8D9", "U+A909", "U+A9D9", "U+A9F9", "U+AA59", "U+ABF9",
      "U+FF19", "U+104A9", "U+10D39", "U+1106F", "U+110F9", "U+1113F",
      "U+111D9", "U+112F9", "U+11459", "U+114D9", "U+11659", "U+116C9",
      "U+11739", "U+118E9", "U+11959", "U+11C59", "U+11D59", "U+11DA9",
      "U+16A69", "U+16AC9", "U+16B59", "U+1D7D7", "U+1D7E1", "U+1D7EB",
      "U+1D7F5", "U+1D7FF", "U+1E149", "U+1E2F9", "U+1E959", "U+1FBF9" } >>
\* A class [0-9] of the directive's pattern: ASCII only.
IsAsciiDigit(c) == \E k \in 1..10 : DigitChar[k] = c

\* The class \d of the directive's pattern: any decimal digit.
IsDigit(c) == IsAsciiDigit(c) \/ \E k \in 1..10 : c \in UnicodeDigits[k]

\* int() of one digit.
DigitVal(c) ==
    IF IsAsciiDigit(c) THEN (CHOOSE k \in 1..10 : DigitChar[k] = c) - 1
    ELSE (CHOOSE k \in 1..10 : c \in UnicodeDigits[k]) - 1

\* CSV.FORMAT = "%d-%m-%Y": the separator between the three directives.
FORMAT_SEP == "-"

IsLeap(y) == (y % 4 = 0 /\ y % 100 # 0) \/ y % 400 = 0

DaysInMonth(y, m) ==
    IF m = 2 THEN (IF IsLeap(y) THEN 29 ELSE 28)
    ELSE IF m \in {4, 6, 9, 11} THEN 30 ELSE 31

\* %d : 3[0-1] | [1-2]\d | 0[1-9] | [1-9] | " "[1-9]
DayTokenOk(t) ==
    \/ /\ Len(t) = 2
       /\ \/ t[1] = "3" /\ t[2] \in {"0", "1"}
          \/ t[1] \in {"1", "2"} /\ IsDigit(t[2])
          \/ t[1] \in {"0", " "} /\ IsAsciiDigit(t[2]) /\ t[2] # "0"
    \/ Len(t) = 1 /\ IsAsciiDigit(t[1]) /\ t[1] # "0"

\* %m : 1[0-2] | 0[1-9] | [1-9]
MonthTokenOk(t) ==
    \/ /\ Len(t) = 2
       /\ \/ t[1] = "1" /\ t[2] \in {"0", "1", "2"}
          \/ t[1] = "0" /\ IsAsciiDigit(t[2]) /\ t[2] # "0"
    \/ Len(t) = 1 /\ IsAsciiDigit(t[1]) /\ t[1] # "0"

\* %Y : \d\d\d\d
YearTokenOk(t) == Len(t) = 4 /\ \A i \in 1..4 : IsDigit(t[i])

TokenVal(t) ==
    IF Len(t) = 1 THEN DigitVal(t[1])
    ELSE IF Len(t) = 2
         THEN (IF t[1] = " " THEN 0 ELSE DigitVal(t[1])) * 10 + DigitVal(t[2])
         ELSE DigitVal(t[1]) * 1000 + DigitVal(t[2]) * 100
              + DigitVal(t[3]) * 10 + DigitVal(t[4])

NaT == [ok |-> FALSE, y |-> 0, m |-> 0, d |-> 0]

\* The day (y, m, d) when the calendar has it.
CalendarDate(y, m, d) ==
    IF y >= 1 /\ d <= DaysInMonth(y, m)
    THEN [ok |-> TRUE, y |-> y, m |-> m, d |-> d]
    ELSE NaT

\* The three groups the pattern of FORMAT matched, converted with int().
TokenDate(dt, mt, yt) ==
    IF DayTokenOk(dt) /\ MonthTokenOk(mt) /\ YearTokenOk(yt)
    THEN CalendarDate(TokenVal(yt), TokenVal(mt), TokenVal(dt))
    ELSE NaT

\* The text cut at its two separators, at places i1 < i2.
SplitDate(t, i1, i2) ==
    TokenDate(SubSeq(t, 1, i1 - 1), SubSeq(t, i1 + 1, i2 - 1),
              SubSeq(t, i2 + 1, Len(t)))

Separators(t) == {i \in 1..Len(t) : t[i] = FORMAT_SEP}

First(S) == CHOOSE i \in S : \A j \in S : i <= j

Last(S) == CHOOSE i \in S : \A j \in S : j <= i

\* strptime / to_datetime under FORMAT: the whole text must match
\* day SEP month SEP year and name a day of the calendar.
ParseDate(t) ==
    IF Cardinality(Separators(t)) # 2 THEN NaT
    ELSE SplitDate(t, First(Separators(t)), Last(Separators(t)))

\* The mask's comparison if the date column were left as text: fixed-width
\* DD-MM-YYYY texts order by day, then month, then year.
DateLE_AsText(a, b) ==
    \/ a.d < b.d
    \/ a.d = b.d /\ a.m < b.m
    \/ a.d = b.d /\ a.m = b.m /\ a.y <= b.y

\* Timestamp <= datetime: comparison of calendar values.
DateLE(a, b) ==
    \/ a.y < b.y
    \/ a.y = b.y /\ a.m < b.m
    \/ a.y = b.y /\ a.m = b.m /\ a.d <= b.d

\* Cells pandas.read_csv reads as missing (its default na_values).
NA_VALUES ==
    {"", "#N/A", "#N/A N/A", "#NA", "-1.#IND", "-1.#QNAN", "-NaN", "-nan",
     "1.#IND", "1.#QNAN", "<NA>", "N/A", "NA", "NULL", "NaN", "None", "n/a",
     "nan", "null"}

\* A text cell as read_csv delivers it: missing, or the text.
ReadText(s) == IF s \in NA_VALUES THEN [na |-> TRUE, text |-> ""]
               ELSE [na |-> FALSE, text |-> s]

(***************************************************************************)
(* The store                                                               *)
(***************************************************************************)
AbsentFile == [exists |-> FALSE, header |-> FALSE, rows |-> <<>>]

\* DataFrame(columns=COLUMNS).to_csv(CSV_FILE, index=False)
HeaderOnlyFile == [exists |-> TRUE, header |-> TRUE, rows |-> <<>>]

sample_data == <<
    [date |-> <<"0","1","-","0","1","-","2","0","2","5">>, amount |-> 2000,
     category |-> "Income", description |-> "Salary"],
    [date |-> <<"0","2","-","0","1","-","2","0","2","5">>, amount |-> -150,
     category |-> "Expense", description |-> "Groceries"],
    [date |-> <<"0","3","-","0","1","-","2","0","2","5">>, amount |-> 500,
     category |-> "Income", description |-> "Freelance work"],
    [date |-> <<"0","4","-","0","1","-","2","0","2","5">>, amount |-> -200,
     category |-> "Expense", description |-> "Transport"],
    [date |-> <<"0","5","-","0","1","-","2","0","2","5">>, amount |-> -100,
     category |-> "Expense", description |-> "Entertainment"],
    [date |-> <<"0","6","-","0","1","-","2","0","2","5">>, amount |-> 1000,
     category |-> "Income", description |-> "Investment Returns"],
    [date |-> <<"0","7","-","0","1","-","2","0","2","5">>, amount |-> -50,
     category |-> "Expense", description |-> "Snacks"],
    [date |-> <<"0","8","-","0","1","-","2","0","2","5">>, amount |-> -300,
     category |-> "Expense", description |-> "Rent"],
    [date |-> <<"0","9","-","0","1","-","2","0","2","5">>, amount |-> 1500,
     category |-> "Income", description |-> "Freelance work"],
    [date |-> <<"1","0","-","0","1","-","2","0","2","5">>, amount |-> -250,
     category |-> "Expense", description |-> "Utilities"],
    [date |-> <<"1","1","-","0","1","-","2","0","2","5">>, amount |-> 100,
     category |-> "Income", description |-> "Side project"],
    [date |-> <<"1","2","-","0","1","-","2","0","2","5">>, amount |-> -200,
     category |-> "Expense", description |-> "Groceries"],
    [date |-> <<"1","3","-","0","1","-","2","0","2","5">>, amount |-> -150,
     category |-> "Expense", description |-> "Transport"],
    [date |-> <<"1","4","-","0","1","-","2","0","2","5">>, amount |-> 2500,
     category |-> "Income", description |-> "Salary"],
    [date |-> <<"1","5","-","0","1","-","2","0","2","5">>, amount |-> -300,
     category |-> "Expense", description |-> "Insurance"] >>

\* open(CSV_FILE, "a"): the file is created when absent, and every write
\* goes after what it holds.
OpenAppend(f, lines) ==
    [exists |-> TRUE, header |-> f.exists /\ f.header, rows |-> f.rows \o lines]

\* The same with mode "w": what the file held is lost.
OpenAppend_Truncating(f, lines) ==
    [exists |-> TRUE, header |-> FALSE, rows |-> lines]

\* pd.read_csv(CSV_FILE): the first line names the columns, the rest is data.
ReadCsv(f) ==
    IF ~f.exists
    THEN [raised |-> "FileNotFoundError", columns |-> FALSE, rows |-> <<>>]
    ELSE IF ~f.header /\ f.rows = <<>>
    THEN [raised |-> "EmptyDataError", columns |-> FALSE, rows |-> <<>>]
    ELSE LET data == IF f.header THEN f.rows ELSE Tail(f.rows) IN
         [raised |-> "none", columns |-> f.header,
          rows |-> [i \in 1..Len(data) |->
                     [date |-> data[i].date, amount |-> data[i].amount,
                      category |-> data[i].category,
                      description |-> ReadText(data[i].description)]]]

\* add_sample_data(df): writes the rows when df is empty.
add_sample_data_Skipping(f, df) == [file |-> f, seeded |-> 0, raised |-> "none"]

add_sample_data(f, df) ==
    IF df = <<>>
    THEN [file |-> OpenAppend(f, sample_data), seeded |-> 1, raised |-> "none"]
    ELSE [file |-> f, seeded |-> 0, raised |-> "none"]

\* initialize_csv with the seeding outside the except branch.
initialize_csv_AlwaysSeeding(f) ==
    add_sample_data(IF f.exists THEN f ELSE HeaderOnlyFile, <<>>)

\* initialize_csv: only FileNotFoundError is caught; the new frame handed
\* to add_sample_data has no rows.
initialize_csv(f) ==
    IF ReadCsv(f).raised = "FileNotFoundError"
    THEN add_sample_data(HeaderOnlyFile, <<>>)
    ELSE [file |-> f, seeded |-> 0, raised |-> ReadCsv(f).raised]

add_entry_Overwriting(f, date, amount, category, description) ==
    OpenAppend_Truncating(f, <<[date |-> date, amount |-> amount,
                    category |-> category, description |-> description]>>)

add_entry(f, date, amount, category, description) ==
    OpenAppend(f, <<[date |-> date, amount |-> amount,
                    category |-> category, description |-> description]>>)

(***************************************************************************)
(* The date texts of the explored inputs                                   *)
(***************************************************************************)
D_31_12_2024 == <<"3","1","-","1","2","-","2","0","2","4">>
D_01_01_2025 == <<"0","1","-","0","1","-","2","0","2","5">>
D_10_01_2025 == <<"1","0","-","0","1","-","2","0","2","5">>
D_01_03_2025 == <<"0","1","-","0","3","-","2","0","2","5">>
D_15_03_2025 == <<"1","5","-","0","3","-","2","0","2","5">>
D_31_03_2025 == <<"3","1","-","0","3","-","2","0","2","5">>
D_01_04_2025 == <<"0","1","-","0","4","-","2","0","2","5">>
\* Texts that name no day: month 13, and 29 February of a common year.
D_31_13_2025 == <<"3","1","-","1","3","-","2","0","2","5">>
D_29_02_2025 == <<"2","9","-","0","2","-","2","0","2","5">>
\* 15 March 2025 with the day's second digit ARABIC-INDIC DIGIT FIVE.
D_15_03_2025_U0665 == <<"1","U+0665","-","0","3","-","2","0","2","5">>

DateTexts ==
    {sample_data[i].date : i \in 1..Len(sample_data)} \cup
    {D_31_12_2024, D_01_01_2025, D_10_01_2025, D_01_03_2025, D_15_03_2025,
     D_31_03_2025, D_01_04_2025, D_31_13_2025, D_29_02_2025,
     D_15_03_2025_U0665, <<>>}

\* ParseDate tabulated over the texts above (evaluated once).
ParsedDate == [t \in DateTexts |-> ParseDate(t)]

\* ParseDate, read from the table where the table has the text.
ToDate(t) == IF t \in DateTexts THEN ParsedDate[t] ELSE ParseDate(t)

(***************************************************************************)
(* get_transactions                                                        *)
(***************************************************************************)
\* pd.to_datetime(..., errors="raise"): one unparseable cell fails the call.
to_datetime_Raising(rows) ==
    IF \E i \in 1..Len(rows) : ~ToDate(rows[i].date).ok
    THEN [raised |-> "ValueError", rows |-> <<>>]
    ELSE [raised |-> "none",
          rows |-> [i \in 1..Len(rows) |->
                     [rows[i] EXCEPT !.date = ToDate(rows[i].date)]]]

\* pd.to_datetime(df["date"], format=FORMAT, errors="coerce"): an
\* unparseable cell becomes NaT.
to_datetime(rows) ==
    [raised |-> "none",
     rows |-> [i \in 1..Len(rows) |->
                [rows[i] EXCEPT !.date = ToDate(rows[i].date)]]]

\* df.dropna(subset=["date"])
dropna(rows) == LET Dated(r) == r.date.ok IN SelectSeq(rows, Dated)

\* df.loc[mask], mask = (date >= start_date) & (date <= end_date)
InMask(rows, s, e) ==
    LET Mask(r) == DateLE(s, r.date) /\ DateLE(r.date, e) IN SelectSeq(rows, Mask)

\* Lines 71-78 on the frame with its dates parsed; s and e are the results
\* of strptime on the two arguments, which raises on a text it cannot parse.
FilterDated(conv, s, e) ==
    IF conv.raised # "none" THEN [raised |-> conv.raised, rows |-> <<>>]
    ELSE IF ~s.ok \/ ~e.ok THEN [raised |-> "ValueError", rows |-> <<>>]
    ELSE [raised |-> "none", rows |-> InMask(dropna(conv.rows), s, e)]

\* Lines 69-78 on the frame read_csv returned: df["date"] needs the column.
FilterFrame(rd, start_date, end_date) ==
    IF rd.raised # "none" THEN [raised |-> rd.raised, rows |-> <<>>]
    ELSE IF ~rd.columns THEN [raised |-> "KeyError", rows |-> <<>>]
    ELSE FilterDated(to_datetime(rd.rows), ToDate(start_date), ToDate(end_date))

\* Lines 66-78: read, parse the dates, drop the unparsed, keep the range.
Filter(f, start_date, end_date) == FilterFrame(ReadCsv(f), start_date, end_date)

RECURSIVE SumAmount(_, _)
\* filtered_df[filtered_df["category"] == c]["amount"].sum()
SumAmount(rows, c) ==
    IF rows = <<>> THEN 0
    ELSE (IF Head(rows).category = c THEN Head(rows).amount ELSE 0)
         + SumAmount(Tail(rows), c)

\* Net savings computed by adding the (negative) expenses.
Summary_AddingExpense(rows) ==
    [total_income |-> SumAmount(rows, "Income"),
     total_expense |-> SumAmount(rows, "Expense"),
     net |-> SumAmount(rows, "Income") + SumAmount(rows, "Expense")]

\* Lines 92-99.
Summary(rows) ==
    [total_income |-> SumAmount(rows, "Income"),
     total_expense |-> SumAmount(rows, "Expense"),
     net |-> SumAmount(rows, "Income") - SumAmount(rows, "Expense")]

NOTICE == "No transactions found in the given date range."

SUMMARY_LINES ==
    <<"Summary:", "Total Income:", "Total Expense:", "Net Savings:">>

\* The summary printed only in the else branch.
Printed_SummaryOnlyWithRows(rows) ==
    IF rows = <<>> THEN <<NOTICE>>
    ELSE <<"Transactions from", "table">> \o SUMMARY_LINES

\* Lines 80-98: what is printed, line by line ("table" stands for the
\* to_string of the frame, one line per row of the result).
Printed(rows) ==
    (IF rows = <<>> THEN <<NOTICE>> ELSE <<"Transactions from", "table">>)
    \o SUMMARY_LINES

\* Lines 80-100 on the filtered frame q: the store after the call, the
\* exception that left it (if any), the returned frame, the printed lines
\* and the figures.
Reported(f, q) ==
    IF q.raised # "none"
    THEN [file |-> f, raised |-> q.raised, result |-> <<>>, output |-> <<>>,
          summary |-> Summary(<<>>)]
    ELSE [file |-> f, raised |-> "none", result |-> q.rows,
          output |-> Printed(q.rows), summary |-> Summary(q.rows)]

\* get_transactions that rewrites the store from a frame without rows.
get_transactions_Saving(f, start_date, end_date) ==
    [Reported(f, Filter(f, start_date, end_date)) EXCEPT
       !.file = IF @.exists THEN HeaderOnlyFile ELSE @]

get_transactions(f, start_date, end_date) ==
    Reported(f, Filter(f, start_date, end_date))

\* plot_transactions(df): builds the two daily series between the first and
\* the last date of df and shows the figure; the store is not opened.
plot_transactions(df) ==
    IF df = <<>> THEN [raised |-> "ValueError", shown |-> FALSE]
    ELSE [raised |-> "none", shown |-> TRUE]

(***************************************************************************)
(* Inputs                                                                  *)
(***************************************************************************)
Coffee == [date |-> D_15_03_2025, amount |-> -75, category |-> "Expense",
           description |-> "Coffee"]

\* What the prompts of data_entry hand to add(): a date in FORMAT, a number,
\* "Income" or "Expense", and any line of text (the empty line included).
PromptEntries ==
    { Coffee,
      [date |-> D_15_03_2025, amount |-> -75, category |-> "Expense",
       description |-> ""],
      [date |-> D_01_04_2025, amount |-> 120, category |-> "Income",
       description |-> "Bonus"],
      [date |-> D_31_12_2024, amount |-> -30, category |-> "Expense",
       description |-> "Gift"],
      [date |-> D_10_01_2025, amount |-> -200, category |-> "Income",
       description |-> "Correction"] }

\* What a caller can hand to add_entry, which checks nothing.
Entries ==
    PromptEntries \cup
    { [date |-> D_31_13_2025, amount |-> 40, category |-> "Income",
       description |-> "Refund"],
      [date |-> D_29_02_2025, amount |-> -10, category |-> "Expense",
       description |-> "Leap"],
      [date |-> D_15_03_2025_U0665, amount |-> 60, category |-> "Income",
       description |-> "Voucher"] }

\* The frames a caller can hand to add_sample_data: without rows, with rows.
Frames == {<<>>, <<Coffee>>}

\* The start and end dates get_date hands to get_transactions.
QueryDates ==
    {D_31_12_2024, D_01_01_2025, D_10_01_2025, D_01_03_2025, D_31_03_2025}

NoEntry == [date |-> <<>>, amount |-> 0, category |-> "", description |-> ""]

\* The record of the last call: its name and arguments, the store before
\* it, and what it raised, returned and printed.
Call(op, before) ==
    [op |-> op, before |-> before, entry |-> NoEntry,
     start_date |-> <<>>, end_date |-> <<>>, raised |-> "none",
     result |-> <<>>, output |-> <<>>, summary |-> Summary(<<>>),
     plotted |-> FALSE]

(***************************************************************************)
(* add(): two writes with the prompts between them                         *)
(***************************************************************************)
\* The program before its first run: no finance_data.csv.
Init ==
    /\ file = AbsentFile
    /\ last = Call("start", file)
    /\ pc = "menu"
    /\ nWrites = 0
    /\ seedWrites = 0

\* add() up to its first prompt: initialize_csv (line 136).  The store add()
\* was entered with stays in last.before until add() returns.
AddInitialize ==
    /\ pc = "menu"
    /\ nWrites < MaxWrites
    /\ \E i \in {initialize_csv(file)} :
       /\ file' = i.file
       /\ seedWrites' = seedWrites + i.seeded
       /\ last' = [Call("initialize_csv", file) EXCEPT !.raised = i.raised]
       /\ pc' = IF i.raised = "none" THEN "prompts" ELSE "crashed"
    /\ UNCHANGED <<nWrites>>

\* add() from its last prompt on: the four answers are in, add_entry
\* (line 144) writes them to the store as it is now.
AddPrompted ==
    /\ pc = "prompts"
    /\ \E e \in PromptEntries :
         /\ file' = add_entry(file, e.date, e.amount, e.category, e.description)
         /\ last' = [Call("add", last.before) EXCEPT !.entry = e]
    /\ pc' = "menu"
    /\ nWrites' = nWrites + 1
    /\ UNCHANGED seedWrites

\* What a prompt raises when the input ends or the user interrupts.
Interrupts == {"EOFError", "KeyboardInterrupt"}

\* add() left at a prompt (lines 137-143): the input ends or the user
\* interrupts; nothing catches it and add_entry is not reached.
AddInterrupted ==
    /\ pc = "prompts"
    /\ pc' = "crashed"
    /\ \E x \in Interrupts :
         last' = [Call("add", last.before) EXCEPT !.raised = x]
    /\ UNCHANGED <<file, nWrites, seedWrites>>

(***************************************************************************)
(* The functions, called one after the other in any order                  *)
(***************************************************************************)
CallInitializeCsv ==
    /\ pc = "menu"
    /\ \E i \in {initialize_csv(file)} :
       /\ file' = i.file
       /\ seedWrites' = seedWrites + i.seeded
       /\ last' = [Call("initialize_csv", file) EXCEPT !.raised = i.raised]
    /\ UNCHANGED <<pc, nWrites>>

CallAddSampleData ==
    /\ pc = "menu"
    /\ \E df \in Frames :
         \E a \in {add_sample_data(file, df)} :
         /\ nWrites + a.seeded <= MaxWrites
         /\ file' = a.file
         /\ nWrites' = nWrites + a.seeded
         /\ last' = [Call("add_sample_data", file) EXCEPT !.raised = a.raised]
    /\ UNCHANGED <<pc, seedWrites>>

CallAddEntry ==
    /\ pc = "menu"
    /\ nWrites < MaxWrites
    /\ \E e \in Entries :
         /\ file' = add_entry(file, e.date, e.amount, e.category, e.description)
         /\ last' = [Call("add_entry", file) EXCEPT !.entry = e]
    /\ nWrites' = nWrites + 1
    /\ UNCHANGED <<pc, seedWrites>>

CallGetTransactions ==
    /\ pc = "menu"
    /\ \E s \in QueryDates, e \in QueryDates :
         \E q \in {get_transactions(file, s, e)} :
         /\ file' = q.file
         /\ last' = [Call("get_transactions", file) EXCEPT
                       !.start_date = s, !.end_date = e, !.raised = q.raised,
                       !.result = q.result, !.output = q.output,
                       !.summary = q.summary]
    /\ UNCHANGED <<pc, nWrites, seedWrites>>

\* plot_transactions on the frame the last get_transactions returned.
CallPlotTransactions ==
    /\ pc = "menu"
    /\ last.op = "get_transactions"
    /\ last.raised = "none"
    /\ \E p \in {plot_transactions(last.result)} :
       last' = [last EXCEPT !.op = "plot_transactions", !.before = file,
                            !.raised = p.raised, !.plotted = p.shown]
    /\ UNCHANGED <<file, pc, nWrites, seedWrites>>

Next ==
    \/ CallInitializeCsv
    \/ CallAddSampleData
    \/ CallAddEntry
    \/ AddInitialize
    \/ AddPrompted
    \/ AddInterrupted
    \/ CallGetTransactions
    \/ CallPlotTransactions

Spec == Init /\ [][Next]_vars

(***************************************************************************)
(* main: the menu loop                                                     *)
(***************************************************************************)
\* choice "1": add()
MenuAdd == AddInitialize \/ AddPrompted \/ AddInterrupted

\* choice "2" up to the start-date prompt (lines 156-157).
QueryChosen ==
    /\ pc = "menu"
    /\ pc' = "start_date"
    /\ last' = Call("query", file)
    /\ UNCHANGED <<file, nWrites, seedWrites>>

\* The start date is in (line 157); the end date is asked for.
QueryStartDate ==
    /\ pc = "start_date"
    /\ pc' = "end_date"
    /\ \E s \in QueryDates : last' = [last EXCEPT !.start_date = s]
    /\ UNCHANGED <<file, nWrites, seedWrites>>

\* The end date is in (line 158) and get_transactions runs (line 159): an
\* exception of it is caught nowhere; the plot is offered only for a frame
\* with rows (line 160), otherwise the menu comes back.
QueryEndDate ==
    /\ pc = "end_date"
    /\ \E e \in QueryDates :
         \E q \in {get_transactions(file, last.start_date, e)} :
         /\ file' = q.file
         /\ last' = [Call("get_transactions", file) EXCEPT
                       !.start_date = last.start_date, !.end_date = e,
                       !.raised = q.raised, !.result = q.result,
                       !.output = q.output, !.summary = q.summary]
         /\ pc' = IF q.raised # "none" THEN "crashed"
                  ELSE IF q.result = <<>> THEN "menu"
                  ELSE "plot_prompt"
    /\ UNCHANGED <<nWrites, seedWrites>>

\* A date prompt (lines 157, 158) left by the end of the input or an
\* interrupt: get_transactions is not called.
QueryInterrupted ==
    /\ pc \in {"start_date", "end_date"}
    /\ pc' = "crashed"
    /\ \E x \in Interrupts :
         last' = [Call("query", file) EXCEPT
                    !.start_date = last.start_date, !.raised = x]
    /\ UNCHANGED <<file, nWrites, seedWrites>>

\* The plot prompt answered (lines 160-161): "y" in either case plots the
\* frame get_transactions returned, any other answer goes back to the menu.
PlotAnswered ==
    /\ pc = "plot_prompt"
    /\ pc' = "menu"
    /\ \E yes \in BOOLEAN :
         IF yes
         THEN \E p \in {plot_transactions(last.result)} :
                last' = [last EXCEPT !.op = "plot_transactions",
                                     !.before = file, !.raised = p.raised,
                                     !.plotted = p.shown]
         ELSE last' = [last EXCEPT !.op = "plot_declined", !.before = file]
    /\ UNCHANGED <<file, nWrites, seedWrites>>

\* The plot prompt (line 160) left by the end of the input or an interrupt,
\* after a query that raised nothing.
PlotInterrupted ==
    /\ pc = "plot_prompt"
    /\ pc' = "crashed"
    /\ \E x \in Interrupts :
         last' = [last EXCEPT !.op = "plot_prompt", !.before = file,
                              !.raised = x]
    /\ UNCHANGED <<file, nWrites, seedWrites>>

\* choice "2"
MenuQuery ==
    \/ QueryChosen
    \/ QueryStartDate
    \/ QueryEndDate
    \/ QueryInterrupted
    \/ PlotAnswered
    \/ PlotInterrupted

\* choice "3"
MenuExit ==
    /\ pc = "menu"
    /\ pc' = "exited"
    /\ last' = [Call("exit", file) EXCEPT !.output = <<"Exiting...">>]
    /\ UNCHANGED <<file, nWrites, seedWrites>>

\* any other choice
MenuInvalid ==
    /\ pc = "menu"
    /\ last' = [Call("invalid", file) EXCEPT
                  !.output = <<"Invalid choice. Enter 1, 2, or 3.">>]
    /\ UNCHANGED <<file, pc, nWrites, seedWrites>>

\* The menu prompt (line 153) left by the end of the input or an interrupt:
\* the program ends without a call.
MenuInterrupted ==
    /\ pc = "menu"
    /\ pc' = "crashed"
    /\ \E x \in Interrupts : last' = [Call("choice", file) EXCEPT !.raised = x]
    /\ UNCHANGED <<file, nWrites, seedWrites>>

main == MenuAdd \/ MenuQuery \/ MenuExit \/ MenuInvalid \/ MenuInterrupted

MenuSpec == Init /\ [][main]_vars

(***************************************************************************)
(* Properties                                                              *)
(***************************************************************************)
\* A calendar date as one number, for comparisons stated without DateLE.
CalendarNumber(p) == p.y * 10000 + p.m * 100 + p.d

Occurrences(x, seq) == Cardinality({i \in 1..Len(seq) : seq[i] = x})

IsPrefix(a, b) == Len(a) <= Len(b) /\ SubSeq(b, 1, Len(a)) = a

\* The record a caller expects back for an appended entry: the date as a
\* calendar value, the other three fields as given.
Returned(e) ==
    [date |-> ToDate(e.date), amount |-> e.amount, category |-> e.category,
     description |-> [na |-> FALSE, text |-> e.description]]

\* The lines of the store whose date is a day in [start_date, end_date].
InRange(rows, start_date, end_date) ==
    {i \in 1..Len(rows) :
       /\ ToDate(rows[i].date).ok
       /\ CalendarNumber(ToDate(start_date))
            <= CalendarNumber(ToDate(rows[i].date))
       /\ CalendarNumber(ToDate(rows[i].date))
            <= CalendarNumber(ToDate(end_date))}

\* The k-th smallest element of a set of line numbers.
Nth(S, k) == CHOOSE i \in S : Cardinality({j \in S : j <= i}) = k

RECURSIVE AmountOver(_, _, _)
\* Sum of the amounts of the lines S of rows that carry category c.
AmountOver(S, rows, c) ==
    IF S = {} THEN 0
    ELSE LET i == CHOOSE j \in S : TRUE IN
         (IF rows[i].category = c THEN rows[i].amount ELSE 0)
         + AmountOver(S \ {i}, rows, c)

Queried == last.op = "get_transactions" /\ last.raised = "none"

\* The store the append of the last call went to: add() has initialized the
\* store it was entered with before it appends.
StoreAppendedTo ==
    IF last.op = "add" THEN initialize_csv(last.before).file ELSE last.before

Appended == last.op \in {"add_entry", "add"} /\ last.raised = "none"

\* C1 (round trip): after a valid record is appended to a store with its
\* column line, every query whose range covers the record's date succeeds
\* and returns the record, fields unchanged, exactly once more than the
\* same query returned before the append.
C1_RoundTrip ==
    ( /\ Appended
      /\ ToDate(last.entry.date).ok
      /\ last.entry.category \in {"Income", "Expense"}
      /\ StoreAppendedTo.exists /\ StoreAppendedTo.header )
    => \A s \in QueryDates, e \in QueryDates :
         ( /\ CalendarNumber(ToDate(s)) <= CalendarNumber(ToDate(last.entry.date))
           /\ CalendarNumber(ToDate(last.entry.date)) <= CalendarNumber(ToDate(e)) )
         => /\ get_transactions(file, s, e).raised = "none"
            /\ Occurrences(Returned(last.entry), get_transactions(file, s, e).result)
                 = Occurrences(Returned(last.entry),
                               get_transactions(StoreAppendedTo, s, e).result) + 1

\* C2 (range query): a query that returns holds exactly the lines of the
\* store whose date parses to a day d with start <= d <= end, bounds
\* included and days compared as calendar values, in store order; it is
\* empty when start > end or no line matches.
C2_QueryExact ==
    Queried =>
      LET rows == last.before.rows
          frame == ReadCsv(last.before).rows
          S == InRange(rows, last.start_date, last.end_date)
      IN /\ Len(last.result) = Cardinality(S)
         /\ \A k \in 1..Len(last.result) :
              last.result[k] = [frame[Nth(S, k)] EXCEPT
                                  !.date = ToDate(rows[Nth(S, k)].date)]
         /\ ( CalendarNumber(ToDate(last.start_date))
                > CalendarNumber(ToDate(last.end_date))
              => last.result = <<>> )

\* C2's case: March is queried while the store holds a record of 15 March
\* and one of 1 April, which as text lies between "01-03" and "31-03".
C2_Witness ==
    /\ Queried
    /\ last.start_date = D_01_03_2025 /\ last.end_date = D_31_03_2025
    /\ Len(last.result) = 1
    /\ last.result[1].date = [ok |-> TRUE, y |-> 2025, m |-> 3, d |-> 15]
    /\ \E i \in 1..Len(file.rows) : file.rows[i].date = D_01_04_2025

\* C3 (idempotent initialization): initialize_csv on an existing store
\* (one with only its column line included) leaves it unchanged, and over
\* any calls initialize_csv writes the seed records at most once.
C3_InitializeIdempotent ==
    /\ ( last.op = "initialize_csv" /\ last.before.exists
         => file = last.before /\ last.raised = "none" )
    /\ initialize_csv(HeaderOnlyFile).file = HeaderOnlyFile
    /\ initialize_csv(file).file = initialize_csv(initialize_csv(file).file).file
    /\ seedWrites <= 1

\* C3's case: initialize_csv called again on a seeded store that already
\* holds a user's record.
C3_Witness ==
    /\ last.op = "initialize_csv"
    /\ last.before.exists
    /\ seedWrites = 1
    /\ Len(file.rows) > Len(sample_data)

\* C4 (a query never misses the store): in the menu loop get_transactions
\* always finds the file and completes with a result, not an exception.
C4_QueryFindsStore ==
    last.op = "get_transactions" => last.raised = "none"

\* C5 (figures): total_income and total_expense are the sums of the signed
\* amounts of the result's Income and Expense records, net is their
\* difference, and all three are zero on an empty result.
C5_Totals ==
    Queried =>
      LET rows == last.before.rows
          S == InRange(rows, last.start_date, last.end_date)
      IN /\ last.summary.total_income = AmountOver(S, rows, "Income")
         /\ last.summary.total_expense = AmountOver(S, rows, "Expense")
         /\ last.summary.net
              = last.summary.total_income - last.summary.total_expense
         /\ ( last.result = <<>>
              => last.summary = [total_income |-> 0, total_expense |-> 0,
                                 net |-> 0] )

\* C5's case: the result holds an Expense of -75 and an Income, and the
\* expense total is negative.
C5_Witness ==
    /\ Queried
    /\ \E k \in 1..Len(last.result) :
         last.result[k].category = "Expense" /\ last.result[k].amount = -75
    /\ \E k \in 1..Len(last.result) : last.result[k].category = "Income"
    /\ last.summary.total_expense < 0
    /\ last.summary.net > last.summary.total_income

\* The store without the lines whose date does not parse.
WellFormed(f) ==
    LET Parses(r) == ToDate(r.date).ok IN
    [f EXCEPT !.rows = SelectSeq(f.rows, Parses)]

\* C6 (unparseable dates): on a store with its column line a query does not
\* fail, every returned record has a calendar date, and the result is the
\* one the same query gives on the store without the unparseable lines.
C6_UnparseableExcluded ==
    ( /\ last.op = "get_transactions"
      /\ last.before.exists /\ last.before.header )
    => /\ last.raised = "none"
       /\ \A k \in 1..Len(last.result) : last.result[k].date.ok
       /\ last.result
            = get_transactions(WellFormed(last.before), last.start_date,
                               last.end_date).result

\* C6's case: the store holds a line dated 31-13-2025 and the query returns
\* records.
C6_Witness ==
    /\ Queried
    /\ \E i \in 1..Len(last.before.rows) :
         last.before.rows[i].date = D_31_13_2025
    /\ last.result # <<>>

\* C7 as claimed (empty result): only the notice is printed, no summary
\* figures, and the menu goes on.
C7_OnlyNotice ==
    (Queried /\ last.result = <<>>)
    => last.output = <<NOTICE>> /\ pc = "menu"

\* C7 as amended: on an empty result the notice is printed without a
\* table, followed by the summary with the three figures at zero; there is
\* no plot and the menu goes on.
C7_NoticeThenZeroSummary ==
    (Queried /\ last.result = <<>>)
    => /\ last.output = <<NOTICE>> \o SUMMARY_LINES
       /\ last.summary = [total_income |-> 0, total_expense |-> 0, net |-> 0]
       /\ ~last.plotted
       /\ pc = "menu"

\* C7's case: a seeded store queried for a range that holds none of its
\* records.
C7_Witness ==
    /\ Queried
    /\ last.result = <<>>
    /\ Len(last.before.rows) >= Len(sample_data)

\* C8 (append only): add_entry on an existing store leaves the store
\* followed by the one new line; and the store before any call is a prefix
\* of the store after it, the column line kept.
C8_AppendOnly ==
    /\ ( last.op = "add_entry" /\ last.before.exists
         => file = [last.before EXCEPT !.rows = Append(@, last.entry)] )
    /\ IsPrefix(last.before.rows, file.rows)
    /\ ( last.before.exists
         => file.exists /\ file.header = last.before.header )

\* C8's case: add_entry on a store that holds the seeds.
C8_Witness ==
    /\ last.op = "add_entry"
    /\ last.before.exists
    /\ Len(last.before.rows) >= Len(sample_data)
    /\ file.rows[Len(file.rows)] = last.entry

\* C9 (frame): get_transactions, and the plot of its result, leave the
\* store as it was.
C9_QueryFrame ==
    last.op \in {"get_transactions", "plot_transactions"}
    => file = last.before

\* C9's case: a result with rows was plotted over a store with records.
C9_Witness ==
    /\ last.op = "plot_transactions"
    /\ last.plotted
    /\ last.result # <<>>
    /\ file.rows # <<>>

\* C10 (seeding): initialize_csv on an absent store leaves the column line
\* and the 15 seed records, in order, one per day from 1 to 15 January
\* 2025; the first add() on an absent store leaves 16 records, the user's
\* last.
C10_SeedsOnAbsent ==
    /\ ( last.op = "initialize_csv" /\ ~last.before.exists
         => /\ file.exists /\ file.header
            /\ file.rows = sample_data
            /\ Len(file.rows) = 15
            /\ \A i \in 1..15 :
                 ToDate(file.rows[i].date)
                   = [ok |-> TRUE, y |-> 2025, m |-> 1, d |-> i] )
    /\ ( last.op = "add" /\ last.raised = "none" /\ ~last.before.exists
         => /\ file.exists /\ file.header
            /\ Len(file.rows) = 16
            /\ SubSeq(file.rows, 1, 15) = sample_data
            /\ file.rows[16] = last.entry )

\* C10's case: add() was called on an absent store.
C10_Witness ==
    /\ last.op = "add"
    /\ last.raised = "none"
    /\ ~last.before.exists
    /\ Len(file.rows) = 16

====
